---- MODULE Spec2Model ----
(***************************************************************************)
(* Galaxy scene of src/app/page.tsx: the module-level GalaxyControls       *)
(* object, the control panel that writes it, the single render of Home     *)
(* that decides which components exist, and the per-frame callbacks        *)
(* (useFrame) of OrbitalCube, GlowTrail, PulsingGlow and CosmicDust.       *)
(* SpecEval evaluates one OrbitalCube and one PulsingGlow over inputs      *)
(* drawn from bounded sets; SpecCube is the Cube of components/Cube.tsx.   *)
(*                                                                         *)
(* Numbers are fixed point.  Angles, rotations, positions, scale and       *)
(* opacity are in units of 1/Scale; speeds, radii, heights and the speed   *)
(* multiplier are in tenths; time is in units of 1/Scale seconds.          *)
(***************************************************************************)
EXTENDS Integers, FiniteSets, Sequences, TLC

\* ---------------------------------------------------------------- bounds
\* number of frame ticks explored
MaxFrames == 2
\* a frame tick advances the clock by 1..MaxDelta tenths of a second
MaxDelta == 2
\* the evaluation of one cube starts at 0..MaxEvalStart tenths of a second
MaxEvalStart == 30
\* number of XR sessions the store grants
MaxSessions == 2

\* number of clicks on the panel's speed and effect buttons explored
MaxPanelClicks == 3

\* number of clicks on the Cube explored
MaxClicks == 40

\* ------------------------------------------------------------ fixed point
\* units per 1.0
Scale == 20000
\* Math.PI in units of 1/Scale
PI == 62832
HalfPi == PI \div 2
TwoPi == 2 * PI

\* the clock is sampled on a grid of tenths of a second
TickUnit == Scale \div 10

\* a * b of two fixed-point numbers
Mul(a, b) == (a * b) \div Scale

\* sine of x for 0 <= x <= HalfPi (Taylor series to x^9), never above 1
SinQ(x) ==
    LET t3 == Mul(Mul(x, x), x) \div 6
        t5 == Mul(Mul(t3, x), x) \div 20
        t7 == Mul(Mul(t5, x), x) \div 42
        t9 == Mul(Mul(t7, x), x) \div 72
        s == x - t3 + t5 - t7 + t9
    IN  IF s > Scale THEN Scale ELSE s

\* cosine of x for 0 <= x <= HalfPi (Taylor series to x^10)
CosQ(x) ==
    LET t2 == Mul(x, x) \div 2
        t4 == Mul(Mul(t2, x), x) \div 12
        t6 == Mul(Mul(t4, x), x) \div 30
        t8 == Mul(Mul(t6, x), x) \div 56
        t10 == Mul(Mul(t8, x), x) \div 90
    IN  Scale - t2 + t4 - t6 + t8 - t10

\* Math.sin
Sin(x) ==
    LET r == x % TwoPi
    IN  IF r <= HalfPi THEN SinQ(r)
        ELSE IF r <= PI THEN SinQ(PI - r)
        ELSE IF r <= PI + HalfPi THEN 0 - SinQ(r - PI)
        ELSE 0 - SinQ(TwoPi - r)

\* Math.cos
Cos(x) ==
    LET r == x % TwoPi
    IN  IF r <= HalfPi THEN CosQ(r)
        ELSE IF r <= PI THEN 0 - CosQ(PI - r)
        ELSE IF r <= PI + HalfPi THEN 0 - CosQ(r - PI)
        ELSE CosQ(TwoPi - r)

\* ------------------------------------------------------- scene declaration
\* the five optional visual layers and the GalaxyControls field of each
Layers == {"dust", "trails", "sparkles", "nebula", "glow"}

FlagOf(layer) ==
    CASE layer = "dust" -> "showParticles"
      [] layer = "trails" -> "showTrails"
      [] layer = "sparkles" -> "showSparkles"
      [] layer = "nebula" -> "showNebula"
      [] layer = "glow" -> "showGlow"

Flags == {FlagOf(l) : l \in Layers}

\* speed tiers of the five speed buttons, in tenths: 0.1, 0.5, 1, 2, 5
SpeedTiers == {1, 5, 10, 20, 50}

\* the ten <OrbitalCube> elements of Home, in declaration order
\* (orbitRadius, orbitSpeed, orbitHeight, rotationSpeed, size in tenths)
CubeProps ==
    <<[orbitRadius |-> 20, orbitSpeed |-> 15, color |-> "#FF4080", size |-> 6,
       orbitHeight |-> 5, rotationSpeed |-> 20, orbitOffset |-> 0],
      [orbitRadius |-> 20, orbitSpeed |-> 15, color |-> "#00FFFF", size |-> 5,
       orbitHeight |-> -3, rotationSpeed |-> 15, orbitOffset |-> PI],
      [orbitRadius |-> 35, orbitSpeed |-> 10, color |-> "#C0C0C0", size |-> 12,
       orbitHeight |-> 8, rotationSpeed |-> 12, orbitOffset |-> PI \div 3],
      [orbitRadius |-> 35, orbitSpeed |-> 10, color |-> "#0080FF", size |-> 10,
       orbitHeight |-> -2, rotationSpeed |-> 18, orbitOffset |-> PI + PI \div 3],
      [orbitRadius |-> 35, orbitSpeed |-> 10, color |-> "#8000FF", size |-> 8,
       orbitHeight |-> 3, rotationSpeed |-> 13, orbitOffset |-> (2 * PI) \div 3],
      [orbitRadius |-> 50, orbitSpeed |-> 7, color |-> "#00FF80", size |-> 15,
       orbitHeight |-> 5, rotationSpeed |-> 8, orbitOffset |-> 0],
      [orbitRadius |-> 50, orbitSpeed |-> 7, color |-> "#FFD700", size |-> 10,
       orbitHeight |-> -5, rotationSpeed |-> 15, orbitOffset |-> PI],
      [orbitRadius |-> 50, orbitSpeed |-> 7, color |-> "#FF6B35", size |-> 13,
       orbitHeight |-> 2, rotationSpeed |-> 11, orbitOffset |-> PI \div 2],
      [orbitRadius |-> 70, orbitSpeed |-> 4, color |-> "#8A2BE2", size |-> 18,
       orbitHeight |-> 10, rotationSpeed |-> 6, orbitOffset |-> PI \div 4],
      [orbitRadius |-> 70, orbitSpeed |-> 4, color |-> "#FF1493", size |-> 14,
       orbitHeight |-> -8, rotationSpeed |-> 9, orbitOffset |-> PI + PI \div 4]>>

\* the four <GlowTrail> elements of Home, in declaration order
TrailProps ==
    <<[orbitRadius |-> 20, orbitSpeed |-> 15, color |-> "#FF4080", orbitOffset |-> 0],
      [orbitRadius |-> 35, orbitSpeed |-> 10, color |-> "#0080FF", orbitOffset |-> PI \div 3],
      [orbitRadius |-> 50, orbitSpeed |-> 7, color |-> "#00FF80", orbitOffset |-> 0],
      [orbitRadius |-> 70, orbitSpeed |-> 4, color |-> "#8A2BE2", orbitOffset |-> PI \div 4]>>

CubeIds == DOMAIN CubeProps
TrailIds == DOMAIN TrailProps

\* ------------------------------------------------------- GalaxyControls
\* variant: the literal starts at the Fast tier value written as 2.5
InitControlsOffTier ==
    [speedMultiplier |-> 25,
     showParticles |-> TRUE,
     showTrails |-> TRUE,
     showSparkles |-> TRUE,
     showNebula |-> TRUE,
     showGlow |-> TRUE]

\* the module-level object literal
InitControls ==
    [speedMultiplier |-> 10,
     showParticles |-> TRUE,
     showTrails |-> TRUE,
     showSparkles |-> TRUE,
     showNebula |-> TRUE,
     showGlow |-> TRUE]

\* variant: the handler assigns to a copy of the controls, the write is lost
setSpeedMultiplierOnCopy(gc, v) == gc

\* variant: the handler replaces the whole object by defaults plus the tier
setSpeedMultiplierReplaceAll(gc, v) ==
    [speedMultiplier |-> v,
     showParticles |-> TRUE,
     showTrails |-> TRUE,
     showSparkles |-> TRUE,
     showNebula |-> TRUE,
     showGlow |-> TRUE]

\* onClick of a speed button: GalaxyControls.speedMultiplier = v
setSpeedMultiplier(gc, v) == [gc EXCEPT !.speedMultiplier = v]

\* variant: the Glow button was pasted from Nebula and flips showNebula
togglePasted(gc, layer) ==
    IF layer = "glow"
    THEN [gc EXCEPT !.showNebula = ~gc.showNebula]
    ELSE [gc EXCEPT ![FlagOf(layer)] = ~gc[FlagOf(layer)]]

\* onClick of an effect button: GalaxyControls.f = !GalaxyControls.f
toggle(gc, layer) == [gc EXCEPT ![FlagOf(layer)] = ~gc[FlagOf(layer)]]

\* ------------------------------------------------------- pose evaluation
\* variant: the angle without the multiplier
OrbitAngleUnscaled(time, orbitSpeed, speedMultiplier, orbitOffset) ==
    (time * orbitSpeed) \div 10 + orbitOffset

\* time * orbitSpeed * GalaxyControls.speedMultiplier + orbitOffset
OrbitAngle(time, orbitSpeed, speedMultiplier, orbitOffset) ==
    (time * orbitSpeed * speedMultiplier) \div 100 + orbitOffset

\* orbitHeight + Math.sin(time * 2) * 0.3
OrbitY(time, orbitHeight) ==
    (orbitHeight * Scale) \div 10 + (Sin(time * 2) * 3) \div 10

\* 0.01 * rotationSpeed * GalaxyControls.speedMultiplier
SpinDelta(rotationSpeed, speedMultiplier) ==
    (rotationSpeed * speedMultiplier * Scale) \div 10000

\* 0.01 * rotationSpeed * 0.5 * GalaxyControls.speedMultiplier
SpinDeltaZ(rotationSpeed, speedMultiplier) ==
    (rotationSpeed * speedMultiplier * Scale) \div 20000

\* variant: the callback also requires showTrails before it touches the mesh
OrbitalCubeFrameGated(mesh, p, gc, time) ==
    LET angle == OrbitAngle(time, p.orbitSpeed, gc.speedMultiplier, p.orbitOffset)
    IN  IF ~gc.showTrails THEN mesh
        ELSE [angle |-> angle,
              position |-> [x |-> (Cos(angle) * p.orbitRadius) \div 10,
                            y |-> OrbitY(time, p.orbitHeight),
                            z |-> (Sin(angle) * p.orbitRadius) \div 10],
              rotation |->
                 [x |-> mesh.rotation.x + SpinDelta(p.rotationSpeed, gc.speedMultiplier),
                  y |-> mesh.rotation.y + SpinDelta(p.rotationSpeed, gc.speedMultiplier),
                  z |-> mesh.rotation.z + SpinDeltaZ(p.rotationSpeed, gc.speedMultiplier)]]

\* variant: z was pasted from x and kept Math.cos
OrbitalCubeFrameCosTwice(mesh, p, gc, time) ==
    LET angle == OrbitAngle(time, p.orbitSpeed, gc.speedMultiplier, p.orbitOffset)
    IN  [angle |-> angle,
         position |-> [x |-> (Cos(angle) * p.orbitRadius) \div 10,
                       y |-> OrbitY(time, p.orbitHeight),
                       z |-> (Cos(angle) * p.orbitRadius) \div 10],
         rotation |->
            [x |-> mesh.rotation.x + SpinDelta(p.rotationSpeed, gc.speedMultiplier),
             y |-> mesh.rotation.y + SpinDelta(p.rotationSpeed, gc.speedMultiplier),
             z |-> mesh.rotation.z + SpinDeltaZ(p.rotationSpeed, gc.speedMultiplier)]]

\* variant: the callback tests orbitRadius for truthiness and skips radius 0
OrbitalCubeFrameSkipsZeroRadius(mesh, p, gc, time) ==
    LET angle == OrbitAngle(time, p.orbitSpeed, gc.speedMultiplier, p.orbitOffset)
    IN  IF p.orbitRadius = 0 THEN mesh
        ELSE [angle |-> angle,
              position |-> [x |-> (Cos(angle) * p.orbitRadius) \div 10,
                            y |-> OrbitY(time, p.orbitHeight),
                            z |-> (Sin(angle) * p.orbitRadius) \div 10],
              rotation |->
                 [x |-> mesh.rotation.x + SpinDelta(p.rotationSpeed, gc.speedMultiplier),
                  y |-> mesh.rotation.y + SpinDelta(p.rotationSpeed, gc.speedMultiplier),
                  z |-> mesh.rotation.z + SpinDeltaZ(p.rotationSpeed, gc.speedMultiplier)]]

\* variant: the vertical bob runs on multiplier-scaled time
OrbitalCubeFrameBobScaled(mesh, p, gc, time) ==
    LET angle == OrbitAngle(time, p.orbitSpeed, gc.speedMultiplier, p.orbitOffset)
    IN  [angle |-> angle,
         position |-> [x |-> (Cos(angle) * p.orbitRadius) \div 10,
                       y |-> OrbitY((time * gc.speedMultiplier) \div 10, p.orbitHeight),
                       z |-> (Sin(angle) * p.orbitRadius) \div 10],
         rotation |->
            [x |-> mesh.rotation.x + SpinDelta(p.rotationSpeed, gc.speedMultiplier),
             y |-> mesh.rotation.y + SpinDelta(p.rotationSpeed, gc.speedMultiplier),
             z |-> mesh.rotation.z + SpinDeltaZ(p.rotationSpeed, gc.speedMultiplier)]]

\* variant: the spin is computed from elapsed time instead of accumulated
OrbitalCubeFrameAbsolute(mesh, p, gc, time) ==
    LET angle == OrbitAngle(time, p.orbitSpeed, gc.speedMultiplier, p.orbitOffset)
    IN  [angle |-> angle,
         position |-> [x |-> (Cos(angle) * p.orbitRadius) \div 10,
                       y |-> OrbitY(time, p.orbitHeight),
                       z |-> (Sin(angle) * p.orbitRadius) \div 10],
         rotation |->
            [x |-> (time * p.rotationSpeed * gc.speedMultiplier) \div 100,
             y |-> (time * p.rotationSpeed * gc.speedMultiplier) \div 100,
             z |-> (time * p.rotationSpeed * gc.speedMultiplier) \div 200]]

\* variant: the orbit angle is integrated frame by frame like the rotation
OrbitalCubeFrameIntegrated(mesh, p, gc, time) ==
    LET angle == mesh.angle + (TickUnit * p.orbitSpeed * gc.speedMultiplier) \div 100
        x == (Cos(angle) * p.orbitRadius) \div 10
        z == (Sin(angle) * p.orbitRadius) \div 10
        y == OrbitY(time, p.orbitHeight)
    IN  [angle |-> angle,
         position |-> [x |-> x, y |-> y, z |-> z],
         rotation |->
            [x |-> mesh.rotation.x + SpinDelta(p.rotationSpeed, gc.speedMultiplier),
             y |-> mesh.rotation.y + SpinDelta(p.rotationSpeed, gc.speedMultiplier),
             z |-> mesh.rotation.z + SpinDeltaZ(p.rotationSpeed, gc.speedMultiplier)]]

\* the useFrame callback of OrbitalCube, applied to its mesh
OrbitalCubeFrame(mesh, p, gc, time) ==
    LET angle == OrbitAngle(time, p.orbitSpeed, gc.speedMultiplier, p.orbitOffset)
        x == (Cos(angle) * p.orbitRadius) \div 10
        z == (Sin(angle) * p.orbitRadius) \div 10
        y == OrbitY(time, p.orbitHeight)
    IN  [angle |-> angle,
         position |-> [x |-> x, y |-> y, z |-> z],
         rotation |->
            [x |-> mesh.rotation.x + SpinDelta(p.rotationSpeed, gc.speedMultiplier),
             y |-> mesh.rotation.y + SpinDelta(p.rotationSpeed, gc.speedMultiplier),
             z |-> mesh.rotation.z + SpinDeltaZ(p.rotationSpeed, gc.speedMultiplier)]]

\* time * orbitSpeed + orbitOffset
TrailAngle(time, orbitSpeed, orbitOffset) ==
    (time * orbitSpeed) \div 10 + orbitOffset

\* the useFrame callback of GlowTrail, applied to its mesh
GlowTrailFrame(mesh, p, time) ==
    LET angle == TrailAngle(time, p.orbitSpeed, p.orbitOffset)
    IN  [position |-> [x |-> (Cos(angle) * p.orbitRadius) \div 10,
                       y |-> mesh.position.y,
                       z |-> (Sin(angle) * p.orbitRadius) \div 10],
         rotation |-> [mesh.rotation EXCEPT !.y = angle]]

\* 1 + Math.sin(time * 2) * 0.1
GlowScale(time) == Scale + Sin(time * 2) \div 10

\* variant: the opacity amplitude typed as 0.3
GlowOpacityWide(time) == (3 * Scale) \div 10 + (Sin(time * 3) * 3) \div 10

\* 0.3 + Math.sin(time * 3) * 0.2
GlowOpacity(time) == (3 * Scale) \div 10 + (Sin(time * 3) * 2) \div 10

\* the useFrame callback of PulsingGlow, applied to its mesh
PulsingGlowFrame(mesh, time) ==
    [scale |-> GlowScale(time), opacity |-> GlowOpacity(time)]

\* the useFrame callback of CosmicDust, applied to its points object
CosmicDustFrame(points) ==
    [rotation |-> [x |-> points.rotation.x + Scale \div 2000,
                   y |-> points.rotation.y + Scale \div 1000]]

\* ------------------------------------------------------------ Home render
\* the components the JSX of Home creates for the controls it reads
HomeRender(gc) ==
    [cubes |-> CubeIds,
     layers |-> {l \in Layers : gc[FlagOf(l)]}]

\* -------------------------------------------------- GalaxyControlPanel render
\* what the JSX of GalaxyControlPanel displays for the state and controls it
\* reads: the Exit XR button with the session its handler closes over, the
\* expanded block, and the buttons of that block styled as active
PanelRender(expanded, sess, gc) ==
    [expanded |-> expanded,
     exitXR |-> sess # 0,
     session |-> sess,
     activeSpeed |-> IF expanded
                     THEN {v \in SpeedTiers : gc.speedMultiplier = v}
                     ELSE {},
     activeEffects |-> IF expanded
                       THEN {l \in Layers : gc[FlagOf(l)]}
                       ELSE {}]

\* ------------------------------------------------------------------ state
VARIABLES
    GalaxyControls,  \* the shared controls object
    isExpanded,      \* useState of GalaxyControlPanel
    props,           \* the props each OrbitalCube / GlowTrail was created with
    scene,           \* the components mounted by the render of Home
    time,            \* state.clock.elapsedTime at the latest frame
    frame,           \* number of frame ticks so far
    cube,            \* mesh of each OrbitalCube (and the angle it last computed)
    trail,           \* mesh of each GlowTrail
    glow,            \* mesh scale and material opacity of PulsingGlow
    dust,            \* points object of CosmicDust
    animated,        \* components whose frame callback ran in the latest tick
    lastSpeedClick,  \* history: tier of the most recent speed click, 10 if none
    ev,              \* one OrbitalCube and one PulsingGlow under evaluation
    color,           \* useState of Cube: its colour
    isHovered,       \* useState of Cube: hovered or not
    cursor,          \* document.body.style.cursor
    clicks,          \* history: number of clicks on the Cube
    lastPointer,     \* history: most recent pointer event on the Cube
    mounted,         \* GalaxyControlPanel is mounted and subscribed to the store
    session,         \* useState of GalaxyControlPanel: tracked session, 0 for null
    shown,           \* what the latest render of GalaxyControlPanel displays
    storeSession,    \* state.session of the XR store, 0 for none
    requested,       \* store.enterAR() was called and is not answered yet
    granted,         \* number of sessions the store has created
    lastNotified,    \* history: session of the latest notification, -1 if none
    reported,        \* history: sessions the store has notified the panel of
    endCalls,        \* history: sessions on which end() was called
    panelClicks      \* history: number of clicks on speed and effect buttons

vars == <<GalaxyControls, isExpanded, props, scene, time, frame,
          cube, trail, glow, dust, animated, lastSpeedClick,
          ev, color, isHovered, cursor, clicks, lastPointer,
          mounted, session, shown, storeSession, requested, granted,
          lastNotified, reported, endCalls, panelClicks>>

galaxyVars == <<GalaxyControls, isExpanded, props, scene, time, frame,
                cube, trail, glow, dust, animated, lastSpeedClick>>
cubeVars == <<color, isHovered, cursor, clicks, lastPointer>>
panelVars == <<mounted, session, shown, storeSession, requested, granted,
               lastNotified, reported, endCalls, panelClicks>>

controlVars == <<GalaxyControls, lastSpeedClick>>
poseVars == <<time, frame, cube, trail, glow, dust, animated>>

Zero3 == [x |-> 0, y |-> 0, z |-> 0]

GalaxyInit ==
    /\ GalaxyControls = InitControls
    /\ isExpanded = FALSE
    /\ props = [cubes |-> CubeProps, trails |-> TrailProps]
    /\ scene = HomeRender(InitControls)
    /\ time = 0
    /\ frame = 0
    /\ cube = [i \in CubeIds |-> [angle |-> 0, position |-> Zero3, rotation |-> Zero3]]
    /\ trail = [j \in TrailIds |-> [position |-> Zero3, rotation |-> Zero3]]
    /\ glow = [scale |-> Scale, opacity |-> (3 * Scale) \div 10]
    /\ dust = [rotation |-> [x |-> 0, y |-> 0]]
    /\ animated = [cubes |-> {}, layers |-> {}]
    /\ lastSpeedClick = 10

\* the Cube after its first render
CubeStart ==
    /\ color = "#ff6b35"
    /\ isHovered = FALSE
    /\ cursor = ""
    /\ clicks = 0
    /\ lastPointer = "none"

\* the panel after its first render and the store as createXRStore leaves it
PanelStart ==
    /\ mounted = TRUE
    /\ session = 0
    /\ shown = PanelRender(FALSE, 0, InitControls)
    /\ storeSession = 0
    /\ requested = FALSE
    /\ granted = 0
    /\ lastNotified = -1
    /\ reported = {}
    /\ endCalls = {}
    /\ panelClicks = 0

\* the evaluation of one cube before its first frame
EvalStart(p, m, t) ==
    [p |-> p,
     speedMultiplier |-> m,
     time |-> t,
     n |-> 0,
     mesh |-> [angle |-> 0, position |-> Zero3, rotation |-> Zero3],
     prev |-> [angle |-> 0, position |-> Zero3, rotation |-> Zero3],
     glow |-> [scale |-> Scale, opacity |-> (3 * Scale) \div 10]]

Init ==
    /\ GalaxyInit
    /\ CubeStart
    /\ PanelStart
    /\ ev = EvalStart(CubeProps[1], 10, 0)

\* ---------------------------------------------------------------- actions
\* click on "Galaxy Controls" / "Hide Controls"
ToggleExpanded ==
    /\ isExpanded' = ~isExpanded
    /\ UNCHANGED <<controlVars, props, scene, poseVars, ev, cubeVars, panelVars>>

\* variant: the speed handler also re-poses the cubes at once
SetSpeedSnaps(v) ==
    /\ isExpanded
    /\ GalaxyControls' = setSpeedMultiplier(GalaxyControls, v)
    /\ lastSpeedClick' = v
    /\ cube' = [i \in CubeIds |->
                  [cube[i] EXCEPT !.position =
                      OrbitalCubeFrame(cube[i], props.cubes[i],
                                       setSpeedMultiplier(GalaxyControls, v), time).position]]
    /\ UNCHANGED <<isExpanded, props, scene, time, frame, trail, glow, dust, animated,
                   ev, cubeVars, panelVars>>

\* click on the speed button of tier v (rendered only while expanded)
SetSpeed(v) ==
    /\ isExpanded
    /\ GalaxyControls' = setSpeedMultiplier(GalaxyControls, v)
    /\ lastSpeedClick' = v
    /\ UNCHANGED <<isExpanded, props, scene, poseVars, ev, cubeVars, panelVars>>

\* click on the effect button of a layer (rendered only while expanded)
Toggle(layer) ==
    /\ isExpanded
    /\ GalaxyControls' = toggle(GalaxyControls, layer)
    /\ UNCHANGED <<lastSpeedClick, isExpanded, props, scene, poseVars, ev, cubeVars, panelVars>>

\* variant: a callback tests the multiplier with = instead of === and resets it
FrameTickResetsSpeed(delta) ==
    /\ frame < MaxFrames
    /\ frame' = frame + 1
    /\ time' = time + delta * TickUnit
    /\ GalaxyControls' = [GalaxyControls EXCEPT !.speedMultiplier = 10]
    /\ animated' = scene
    /\ UNCHANGED <<lastSpeedClick, isExpanded, props, scene, cube, trail, glow, dust,
                   ev, cubeVars, panelVars>>

\* variant: a speed click lands between the callbacks of cube 5 and cube 6
FrameTickInterleaved(delta) ==
    /\ frame < MaxFrames
    /\ frame' = frame + 1
    /\ time' = time + delta * TickUnit
    /\ \E v \in SpeedTiers :
          /\ GalaxyControls' = setSpeedMultiplier(GalaxyControls, v)
          /\ lastSpeedClick' = v
          /\ cube' = [i \in CubeIds |->
                        OrbitalCubeFrame(cube[i], props.cubes[i],
                                         IF i <= 5 THEN GalaxyControls
                                         ELSE setSpeedMultiplier(GalaxyControls, v),
                                         time + delta * TickUnit)]
    /\ animated' = scene
    /\ UNCHANGED <<isExpanded, props, scene, trail, glow, dust, ev, cubeVars, panelVars>>

\* one tick of the render loop: every mounted component's useFrame callback
FrameTick(delta) ==
    /\ frame < MaxFrames
    /\ frame' = frame + 1
    /\ time' = time + delta * TickUnit
    /\ cube' = [i \in CubeIds |->
                  IF i \in scene.cubes
                  THEN OrbitalCubeFrame(cube[i], props.cubes[i], GalaxyControls, time')
                  ELSE cube[i]]
    /\ trail' = [j \in TrailIds |->
                  IF "trails" \in scene.layers
                  THEN GlowTrailFrame(trail[j], props.trails[j], time')
                  ELSE trail[j]]
    /\ glow' = IF "glow" \in scene.layers THEN PulsingGlowFrame(glow, time') ELSE glow
    /\ dust' = IF "dust" \in scene.layers THEN CosmicDustFrame(dust) ELSE dust
    /\ animated' = scene
    /\ UNCHANGED <<controlVars, isExpanded, props, scene, ev, cubeVars, panelVars>>

Next ==
    \/ ToggleExpanded
    \/ \E v \in SpeedTiers : SetSpeed(v)
    \/ \E layer \in Layers : Toggle(layer)
    \/ \E delta \in 1..MaxDelta : FrameTick(delta)

Spec == Init /\ [][Next]_vars

\* ------------------------------------------- evaluation of one OrbitalCube
\* parameter sets: cubes 1, 4 and 9 of Home, orbitSpeed 1 with offset 0,
\* orbitRadius 0, and negative speeds
EvalParams ==
    {CubeProps[1], CubeProps[4], CubeProps[9],
     [orbitRadius |-> 10, orbitSpeed |-> 10, color |-> "#FFFFFF", size |-> 10,
      orbitHeight |-> 0, rotationSpeed |-> 10, orbitOffset |-> 0],
     [orbitRadius |-> 0, orbitSpeed |-> 7, color |-> "#FFFFFF", size |-> 10,
      orbitHeight |-> 8, rotationSpeed |-> 12, orbitOffset |-> PI \div 4],
     [orbitRadius |-> 50, orbitSpeed |-> -7, color |-> "#FFFFFF", size |-> 10,
      orbitHeight |-> -5, rotationSpeed |-> -8, orbitOffset |-> PI \div 2]}

\* multipliers: the five tiers, 0 and a negative value (in tenths)
EvalMultipliers == {-10, 0, 1, 5, 10, 20, 50}

\* GalaxyControls with the multiplier set to m
EvalControls(m) == setSpeedMultiplier(InitControls, m)

EvalInit ==
    /\ GalaxyInit
    /\ CubeStart
    /\ PanelStart
    /\ \E p \in EvalParams, m \in EvalMultipliers, k \in 0..MaxEvalStart :
          ev = EvalStart(p, m, k * TickUnit)

\* one frame tick of the cube and the glow under evaluation
EvalFrame(delta) ==
    /\ ev.n < MaxFrames
    /\ ev' = [ev EXCEPT
                !.time = ev.time + delta * TickUnit,
                !.n = ev.n + 1,
                !.prev = ev.mesh,
                !.mesh = OrbitalCubeFrame(ev.mesh, ev.p, EvalControls(ev.speedMultiplier),
                                          ev.time + delta * TickUnit),
                !.glow = PulsingGlowFrame(ev.glow, ev.time + delta * TickUnit)]
    /\ UNCHANGED <<galaxyVars, cubeVars, panelVars>>

EvalNext == \E delta \in 1..MaxDelta : EvalFrame(delta)

SpecEval == EvalInit /\ [][EvalNext]_vars

\* ------------------------------------------------------------------- Cube
\* the palette of changeColor
colors == <<"#ff6b35", "#4ecdc4", "#45b7d1", "#96ceb4", "#ffeaa7">>

\* Array.prototype.indexOf, 0-based, -1 when absent
indexOf(arr, x) ==
    IF \E i \in DOMAIN arr : arr[i] = x
    THEN (CHOOSE i \in DOMAIN arr : arr[i] = x /\ \A j \in DOMAIN arr : arr[j] = x => i <= j) - 1
    ELSE -1

\* changeColor cycling through the first four colours only
changeColorShortCycle(c) ==
    LET currentIndex == indexOf(colors, c)
        nextIndex == (currentIndex + 1) % (Len(colors) - 1)
    IN  colors[nextIndex + 1]

\* the colour changeColor passes to setColor
changeColor(c) ==
    LET currentIndex == indexOf(colors, c)
        nextIndex == (currentIndex + 1) % Len(colors)
    IN  colors[nextIndex + 1]

\* onClick of the mesh
CubeClick ==
    /\ clicks < MaxClicks
    /\ color' = changeColor(color)
    /\ clicks' = clicks + 1
    /\ UNCHANGED <<isHovered, cursor, lastPointer, galaxyVars, ev, panelVars>>

\* onPointerOver of the mesh
CubePointerOver ==
    /\ isHovered' = TRUE
    /\ cursor' = "pointer"
    /\ lastPointer' = "over"
    /\ UNCHANGED <<color, clicks, galaxyVars, ev, panelVars>>

\* variant: onPointerOut forgets to restore the cursor
CubePointerOutLeavesCursor ==
    /\ isHovered' = FALSE
    /\ lastPointer' = "out"
    /\ UNCHANGED <<cursor, color, clicks, galaxyVars, ev, panelVars>>

\* onPointerOut of the mesh
CubePointerOut ==
    /\ isHovered' = FALSE
    /\ cursor' = "default"
    /\ lastPointer' = "out"
    /\ UNCHANGED <<color, clicks, galaxyVars, ev, panelVars>>

\* the scale prop of the mesh, in tenths
CubeScale(hovered) == IF hovered THEN 11 ELSE 10

\* the emissive prop of the material
CubeEmissive(hovered) == IF hovered THEN "#111111" ELSE "#000000"

CubeNext ==
    \/ CubeClick
    \/ CubePointerOver
    \/ CubePointerOut

SpecCube == Init /\ [][CubeNext]_vars

\* ------------------------------------------------- the panel and the store
\* The galaxy specification follows the scene and leaves the panel's output
\* alone; this specification follows what GalaxyControlPanel displays, with
\* the XR store as its environment.
sceneVars == <<props, scene, poseVars, ev, cubeVars>>
storeVars == <<storeSession, requested, granted>>
trackVars == <<session, lastNotified, reported>>

\* the subscribed listener: setSession(state.session || null); a changed
\* state re-renders the panel, an equal one does not
PanelNotified(s) ==
    IF mounted
    THEN /\ session' = s
         /\ shown' = IF s # session
                     THEN PanelRender(isExpanded, s, GalaxyControls)
                     ELSE shown
         /\ lastNotified' = s
         /\ reported' = reported \cup ({s} \ {0})
    ELSE UNCHANGED <<session, shown, lastNotified, reported>>

\* click on "Enter AR": store.enterAR() asks for a session
EnterAR ==
    /\ mounted
    /\ requested' = TRUE
    /\ UNCHANGED <<controlVars, isExpanded, sceneVars, mounted, trackVars, shown,
                   storeSession, granted, endCalls, panelClicks>>

\* the store obtains the session asked for and notifies its subscribers
StoreSessionGranted ==
    /\ requested
    /\ storeSession = 0
    /\ granted < MaxSessions
    /\ granted' = granted + 1
    /\ storeSession' = granted + 1
    /\ requested' = FALSE
    /\ PanelNotified(granted + 1)
    /\ UNCHANGED <<controlVars, isExpanded, sceneVars, mounted, endCalls, panelClicks>>

\* variant: the listener keeps the old session when the store reports none
StoreSessionEndedIgnored ==
    /\ storeSession # 0
    /\ storeSession' = 0
    /\ lastNotified' = IF mounted THEN 0 ELSE lastNotified
    /\ UNCHANGED <<controlVars, isExpanded, sceneVars, mounted, endCalls,
                   requested, granted, session, shown, reported, panelClicks>>

\* the session ends (by end() or by the device) and the store notifies
StoreSessionEnded ==
    /\ storeSession # 0
    /\ storeSession' = 0
    /\ PanelNotified(0)
    /\ UNCHANGED <<controlVars, isExpanded, sceneVars, mounted, endCalls,
                   requested, granted, panelClicks>>

\* click on "Exit XR": end() on the session the rendered handler closes over
ExitXR ==
    /\ mounted
    /\ shown.exitXR
    /\ endCalls' = endCalls \cup {shown.session}
    /\ UNCHANGED <<controlVars, isExpanded, sceneVars, mounted, trackVars, shown,
                   storeVars, panelClicks>>

\* the panel is unmounted: the effect's cleanup unsubscribes
PanelUnmount ==
    /\ mounted
    /\ mounted' = FALSE
    /\ UNCHANGED <<controlVars, isExpanded, sceneVars, trackVars, shown,
                   storeVars, endCalls, panelClicks>>

\* click on "Galaxy Controls" / "Hide Controls": setIsExpanded re-renders
PanelToggleExpanded ==
    /\ mounted
    /\ isExpanded' = ~isExpanded
    /\ shown' = PanelRender(~isExpanded, session, GalaxyControls)
    /\ UNCHANGED <<controlVars, sceneVars, mounted, trackVars, storeVars, endCalls, panelClicks>>

\* variant: the speed buttons are rendered outside the expanded block
PanelSetSpeedAlways(v) ==
    /\ mounted
    /\ panelClicks < MaxPanelClicks
    /\ panelClicks' = panelClicks + 1
    /\ GalaxyControls' = setSpeedMultiplier(GalaxyControls, v)
    /\ lastSpeedClick' = v
    /\ UNCHANGED <<isExpanded, sceneVars, mounted, trackVars, shown, storeVars,
                   endCalls>>

\* click on a displayed speed button: writes the controls, renders nothing
PanelSetSpeed(v) ==
    /\ mounted
    /\ panelClicks < MaxPanelClicks
    /\ panelClicks' = panelClicks + 1
    /\ shown.expanded
    /\ GalaxyControls' = setSpeedMultiplier(GalaxyControls, v)
    /\ lastSpeedClick' = v
    /\ UNCHANGED <<isExpanded, sceneVars, mounted, trackVars, shown, storeVars,
                   endCalls>>

\* click on a displayed effect button: writes the controls, renders nothing
PanelToggle(layer) ==
    /\ mounted
    /\ panelClicks < MaxPanelClicks
    /\ panelClicks' = panelClicks + 1
    /\ shown.expanded
    /\ GalaxyControls' = toggle(GalaxyControls, layer)
    /\ UNCHANGED <<lastSpeedClick, isExpanded, sceneVars, mounted, trackVars, shown,
                   storeVars, endCalls>>

PanelNext ==
    \/ EnterAR
    \/ StoreSessionGranted
    \/ StoreSessionEnded
    \/ ExitXR
    \/ PanelUnmount
    \/ PanelToggleExpanded
    \/ \E v \in SpeedTiers : PanelSetSpeed(v)
    \/ \E layer \in Layers : PanelToggle(layer)

SpecPanel == Init /\ [][PanelNext]_vars

\* ------------------------------------------------------------------ claims
\* a step is a frame tick exactly when the frame counter advances
IsFrameStep == frame' = frame + 1

\* the flags of the controls that are currently true, as layers
FlaggedLayers == {l \in Layers : GalaxyControls[FlagOf(l)]}

\* C1: every frame evaluation of every OrbitalCube (orbit angle and the three
\* self-rotation increments) uses the multiplier of the most recent speed
\* click before that frame, or the default 1 if there was none.
C1_FrameUsesLatestSpeedClick ==
    [][IsFrameStep =>
        \A i \in CubeIds :
            /\ cube'[i].angle =
                 (time' * CubeProps[i].orbitSpeed * lastSpeedClick) \div 100
                 + CubeProps[i].orbitOffset
            /\ cube'[i].rotation.x - cube[i].rotation.x =
                 (CubeProps[i].rotationSpeed * lastSpeedClick * Scale) \div 10000
            /\ cube'[i].rotation.y - cube[i].rotation.y =
                 (CubeProps[i].rotationSpeed * lastSpeedClick * Scale) \div 10000
            /\ cube'[i].rotation.z - cube[i].rotation.z =
                 (CubeProps[i].rotationSpeed * lastSpeedClick * Scale) \div 20000]_vars

\* a frame has run after a click on Turbo and used 5 for cube 1
C1_Witness ==
    /\ frame >= 2
    /\ lastSpeedClick = 50
    /\ cube[1].angle = (time * 15 * 50) \div 100

\* C2: in a frame where showGlow is false the glow pose is neither computed
\* nor applied: scale and opacity keep the values of the previous frame.
C2_GlowFrozenWhileHidden ==
    [][(IsFrameStep /\ ~GalaxyControls.showGlow) =>
        (glow' = glow /\ "glow" \notin animated'.layers)]_vars

\* C3: on every frame tick the optional layers mounted and animated are
\* exactly the layers whose flag in the controls is true.
C3_LayersFollowFlags ==
    [][IsFrameStep =>
        (scene'.layers = FlaggedLayers /\ animated'.layers = FlaggedLayers)]_vars

\* C4: all ten orbital cubes are always in the scene, and every frame tick
\* evaluates the pose of each of them, whatever the flags and the multiplier.
C4_AllCubesAlwaysAnimated ==
    /\ [](scene.cubes = 1..10)
    /\ [][IsFrameStep =>
            /\ animated'.cubes = 1..10
            /\ \A i \in 1..10 :
                  cube'[i].position.y =
                     (CubeProps[i].orbitHeight * Scale) \div 10
                     + (Sin(time' * 2) * 3) \div 10]_vars

\* a frame has run with every flag false and the multiplier at 0.1
C4_Witness ==
    /\ frame > 0
    /\ FlaggedLayers = {}
    /\ GalaxyControls.speedMultiplier = 1
    /\ animated.cubes = 1..10
    /\ cube[10].angle = (time * 4 * 1) \div 100 + PI + PI \div 4

\* C5: at every frame the orbit angle of every cube is
\* t * orbitSpeed * speedMultiplier + orbitOffset for the multiplier current at
\* that frame; multiplier 0.1, t = 10, orbitSpeed 1, offset 0 gives 1.0 (not
\* 10.0); orbitSpeed 1.5, multiplier 1, offset 0, t = 0 gives 0.
C5_OrbitAngleFormula ==
    /\ [][IsFrameStep =>
            \A i \in CubeIds :
                cube'[i].angle =
                   (time' * CubeProps[i].orbitSpeed
                          * GalaxyControls.speedMultiplier) \div 100
                   + CubeProps[i].orbitOffset]_vars
    /\ [](/\ OrbitAngle(10 * Scale, 10, 1, 0) = Scale
          /\ OrbitAngle(10 * Scale, 10, 1, 0) # 10 * Scale
          /\ OrbitAngle(0, 15, 10, 0) = 0)

\* a frame at t > 0 evaluated cube 3 (orbitSpeed 1, offset PI/3) at multiplier 0.1
C5_Witness ==
    /\ frame > 0
    /\ time > 0
    /\ GalaxyControls.speedMultiplier = 1
    /\ cube[3].angle = (time * 10 * 1) \div 100 + PI \div 3

\* C6: every rotational per-frame update is proportional to the multiplier:
\* the cube orbit angle and spin increments, the trail orbit angle and
\* rotation, and the dust field rotation increments.
C6_EveryRotationScaled ==
    [][IsFrameStep =>
        /\ \A i \in CubeIds :
              /\ cube'[i].angle =
                   (time' * CubeProps[i].orbitSpeed
                          * GalaxyControls.speedMultiplier) \div 100
                   + CubeProps[i].orbitOffset
              /\ cube'[i].rotation.x - cube[i].rotation.x =
                   (CubeProps[i].rotationSpeed
                      * GalaxyControls.speedMultiplier * Scale) \div 10000
        /\ \A j \in TrailIds :
              trail'[j].rotation.y =
                 (time' * TrailProps[j].orbitSpeed
                        * GalaxyControls.speedMultiplier) \div 100
                 + TrailProps[j].orbitOffset
        /\ dust'.rotation.y - dust.rotation.y =
              (GalaxyControls.speedMultiplier * Scale) \div 10000
        /\ dust'.rotation.x - dust.rotation.x =
              (GalaxyControls.speedMultiplier * Scale) \div 20000]_vars

\* C7: a click on speed tier v sets the multiplier to v whatever it was
\* (clicking twice equals clicking once), leaves the five flags unchanged,
\* and is never rejected while the button exists.
C7_SpeedClick ==
    /\ [][\A v \in {1, 5, 10, 20, 50} :
            SetSpeed(v) =>
               /\ GalaxyControls'.speedMultiplier = v
               /\ \A f \in Flags : GalaxyControls'[f] = GalaxyControls[f]]_vars
    /\ [](\A v \in {1, 5, 10, 20, 50} :
            /\ setSpeedMultiplier(GalaxyControls, v).speedMultiplier = v
            /\ \A f \in Flags :
                  setSpeedMultiplier(GalaxyControls, v)[f] = GalaxyControls[f]
            /\ setSpeedMultiplier(setSpeedMultiplier(GalaxyControls, v), v)
                  = setSpeedMultiplier(GalaxyControls, v)
            /\ (isExpanded => ENABLED SetSpeed(v)))

\* Slow was clicked last while two layers were switched off
C7_Witness ==
    /\ lastSpeedClick = 1
    /\ GalaxyControls.speedMultiplier = 1
    /\ FlaggedLayers = {"dust", "sparkles", "nebula"}

\* C8: a toggle click flips exactly its layer's flag and leaves the other
\* four flags and the multiplier unchanged; toggling twice restores the
\* controls, and toggles of different layers commute.
C8_ToggleClick ==
    /\ [][\A l \in Layers :
            Toggle(l) =>
               /\ GalaxyControls'[FlagOf(l)] = ~GalaxyControls[FlagOf(l)]
               /\ \A f \in Flags \ {FlagOf(l)} : GalaxyControls'[f] = GalaxyControls[f]
               /\ GalaxyControls'.speedMultiplier = GalaxyControls.speedMultiplier]_vars
    /\ [](\A l \in Layers :
            /\ toggle(GalaxyControls, l)[FlagOf(l)] = ~GalaxyControls[FlagOf(l)]
            /\ \A f \in Flags \ {FlagOf(l)} :
                  toggle(GalaxyControls, l)[f] = GalaxyControls[f]
            /\ toggle(GalaxyControls, l).speedMultiplier = GalaxyControls.speedMultiplier
            /\ toggle(toggle(GalaxyControls, l), l) = GalaxyControls
            /\ \A k \in Layers \ {l} :
                  toggle(toggle(GalaxyControls, l), k)
                     = toggle(toggle(GalaxyControls, k), l))

\* two layers are off, three are on, and the multiplier is 2
C8_Witness ==
    /\ FlaggedLayers = {"dust", "trails", "glow"}
    /\ GalaxyControls.speedMultiplier = 20

\* C9: the controls start with multiplier 1 and all five flags true, and the
\* multiplier is always one of 0.1, 0.5, 1, 2, 5.
C9_ControlsDomain ==
    /\ GalaxyControls.speedMultiplier = 10
    /\ \A f \in {"showParticles", "showTrails", "showSparkles", "showNebula", "showGlow"} :
          GalaxyControls[f] = TRUE
    /\ [](GalaxyControls.speedMultiplier \in {1, 5, 10, 20, 50})

\* the multiplier has left its default and a flag is off
C9_Witness ==
    /\ GalaxyControls.speedMultiplier = 5
    /\ ~GalaxyControls.showParticles
    /\ lastSpeedClick = 5

\* C10: a frame tick leaves the multiplier, the five flags and every
\* object's animation parameters unchanged; the parameters never change.
C10_FrameLeavesControls ==
    /\ [][IsFrameStep =>
            /\ GalaxyControls' = GalaxyControls
            /\ props' = props]_vars
    /\ [](props.cubes = CubeProps /\ props.trails = TrailProps)

\* a frame has run at multiplier 5 with glow and trails off, and they still are
C10_Witness ==
    /\ frame > 0
    /\ GalaxyControls.speedMultiplier = 50
    /\ FlaggedLayers = {"dust", "sparkles", "nebula"}
    /\ cube[1].angle = (time * 15 * 50) \div 100
    /\ dust.rotation.y = frame * (Scale \div 1000)

\* C11: a control-panel click changes only the controls: positions,
\* accumulated rotations, scale and opacity change on frame ticks only.
C11_ClicksLeavePoses ==
    /\ [][GalaxyControls' # GalaxyControls =>
            UNCHANGED <<cube, trail, glow, dust, time, frame>>]_vars
    /\ [][<<cube, trail, glow, dust>>' # <<cube, trail, glow, dust>> =>
            IsFrameStep]_vars

\* Fast was clicked after a frame at multiplier 1: cube 1 still has that pose
C11_Witness ==
    /\ frame >= 1
    /\ lastSpeedClick = 20
    /\ GalaxyControls.speedMultiplier = 20
    /\ ~GalaxyControls.showParticles
    /\ cube[1].angle = (time * 15 * 10) \div 100
    /\ cube[1].rotation.x = frame * 400

\* C12: every frame adds exactly (0.01 * rotationSpeed * m, 0.01 *
\* rotationSpeed * m, 0.005 * rotationSpeed * m) to the accumulated rotation,
\* whatever the elapsed time and the frame delta; after N frames at constant m
\* the rotation is the initial rotation plus N times that increment.
C12_SpinPerFrame ==
    /\ [][ev'.n = ev.n + 1 =>
            /\ ev'.mesh.rotation.x - ev.mesh.rotation.x =
                  (ev.p.rotationSpeed * ev.speedMultiplier * Scale) \div 10000
            /\ ev'.mesh.rotation.y - ev.mesh.rotation.y =
                  (ev.p.rotationSpeed * ev.speedMultiplier * Scale) \div 10000
            /\ ev'.mesh.rotation.z - ev.mesh.rotation.z =
                  (ev.p.rotationSpeed * ev.speedMultiplier * Scale) \div 20000]_vars
    /\ [](/\ ev.mesh.rotation.x =
               ev.n * ((ev.p.rotationSpeed * ev.speedMultiplier * Scale) \div 10000)
          /\ ev.mesh.rotation.y =
               ev.n * ((ev.p.rotationSpeed * ev.speedMultiplier * Scale) \div 10000)
          /\ ev.mesh.rotation.z =
               ev.n * ((ev.p.rotationSpeed * ev.speedMultiplier * Scale) \div 20000))

\* cube 1 at multiplier 0.5 after two frames that took 0.4 s from t = 0.3 s
C12_Witness ==
    /\ ev.p = CubeProps[1]
    /\ ev.speedMultiplier = 5
    /\ ev.n = 2
    /\ ev.time = 7 * TickUnit
    /\ ev.mesh.rotation = [x |-> 400, y |-> 400, z |-> 200]

\* C13: the y of an orbital cube at time t is orbitHeight + sin(2t) * 0.3; it is
\* the same for every multiplier at the same t and orbitHeight, and it stays
\* within orbitHeight - 0.3 .. orbitHeight + 0.3.
C13_BobIgnoresMultiplier ==
    ev.n > 0 =>
        /\ ev.mesh.position.y =
              (ev.p.orbitHeight * Scale) \div 10 + (Sin(ev.time * 2) * 3) \div 10
        /\ \A m \in EvalMultipliers :
              OrbitalCubeFrame(ev.prev, ev.p, EvalControls(m), ev.time).position.y
                 = ev.mesh.position.y
        /\ ev.mesh.position.y >= (ev.p.orbitHeight * Scale) \div 10 - (3 * Scale) \div 10
        /\ ev.mesh.position.y <= (ev.p.orbitHeight * Scale) \div 10 + (3 * Scale) \div 10

\* cube 4 at multiplier 5 and t = 0.8 s, close to the top of its bob
C13_Witness ==
    /\ ev.n = 1
    /\ ev.p = CubeProps[4]
    /\ ev.speedMultiplier = 50
    /\ ev.time = 8 * TickUnit
    /\ ev.mesh.position.y - (-2 * Scale) \div 10 > 5900

\* C14: with multiplier 0 the orbit angle is orbitOffset at every time, so x
\* and z are the same in all frames and the accumulated rotation stays as it
\* was, while y still follows orbitHeight + sin(2t) * 0.3.
C14_ZeroMultiplierFreezes ==
    (ev.speedMultiplier = 0 /\ ev.n > 0) =>
        /\ ev.mesh.angle = ev.p.orbitOffset
        /\ ev.mesh.position.x = (Cos(ev.p.orbitOffset) * ev.p.orbitRadius) \div 10
        /\ ev.mesh.position.z = (Sin(ev.p.orbitOffset) * ev.p.orbitRadius) \div 10
        /\ ev.mesh.rotation = [x |-> 0, y |-> 0, z |-> 0]
        /\ ev.mesh.position.y =
              (ev.p.orbitHeight * Scale) \div 10 + (Sin(ev.time * 2) * 3) \div 10
        /\ ev.n >= 2 =>
              /\ ev.mesh.position.x = ev.prev.position.x
              /\ ev.mesh.position.z = ev.prev.position.z
              /\ ev.mesh.rotation = ev.prev.rotation

\* cube 4 at multiplier 0: two frames with the same x and z but another y
C14_Witness ==
    /\ ev.speedMultiplier = 0
    /\ ev.p = CubeProps[4]
    /\ ev.n = 2
    /\ ev.mesh.position.x = ev.prev.position.x
    /\ ev.mesh.position.x # 0
    /\ ev.mesh.position.y # ev.prev.position.y

\* C15: within one frame tick all ten cubes are evaluated with one and the
\* same multiplier, the one the controls hold before and after the tick, and
\* the flags do not change during the tick.
C15_OneMultiplierPerFrame ==
    [][IsFrameStep =>
        /\ \E m \in {1, 5, 10, 20, 50} :
              /\ GalaxyControls.speedMultiplier = m
              /\ GalaxyControls'.speedMultiplier = m
              /\ \A i \in CubeIds :
                    /\ cube'[i].angle =
                          (time' * CubeProps[i].orbitSpeed * m) \div 100
                          + CubeProps[i].orbitOffset
                    /\ cube'[i].rotation.y - cube[i].rotation.y =
                          (CubeProps[i].rotationSpeed * m * Scale) \div 10000
        /\ \A f \in Flags : GalaxyControls'[f] = GalaxyControls[f]]_vars

\* a frame at multiplier 1 and a frame at multiplier 5: cubes 1 and 10 agree
C15_Witness ==
    /\ frame = 2
    /\ GalaxyControls.speedMultiplier = 50
    /\ cube[1].rotation.y = 400 + 2000
    /\ cube[10].rotation.y = 180 + 900
    /\ cube[1].angle = (time * 15 * 50) \div 100
    /\ cube[10].angle = (time * 4 * 50) \div 100 + PI + PI \div 4

\* C16 as stated: with orbitRadius 0 the position is (0, orbitHeight, 0) at
\* every time, while the self-rotation accumulates each frame.
C16_FixedPointAtZeroRadius ==
    (ev.p.orbitRadius = 0 /\ ev.n > 0) =>
        /\ ev.mesh.position =
              [x |-> 0, y |-> (ev.p.orbitHeight * Scale) \div 10, z |-> 0]
        /\ ev.mesh.rotation.x - ev.prev.rotation.x =
              (ev.p.rotationSpeed * ev.speedMultiplier * Scale) \div 10000

\* C16 amended: with orbitRadius 0 the x and z of the cube are 0 at every
\* time and its y is orbitHeight + sin(2t) * 0.3, within orbitHeight - 0.3 ..
\* orbitHeight + 0.3, while the self-rotation accumulates each frame.
C16_ZeroRadiusBobs ==
    (ev.p.orbitRadius = 0 /\ ev.n > 0) =>
        /\ ev.mesh.position.x = 0
        /\ ev.mesh.position.z = 0
        /\ ev.mesh.position.y =
              (ev.p.orbitHeight * Scale) \div 10 + (Sin(ev.time * 2) * 3) \div 10
        /\ ev.mesh.position.y >= (ev.p.orbitHeight * Scale) \div 10 - (3 * Scale) \div 10
        /\ ev.mesh.position.y <= (ev.p.orbitHeight * Scale) \div 10 + (3 * Scale) \div 10
        /\ ev.mesh.rotation.x - ev.prev.rotation.x =
              (ev.p.rotationSpeed * ev.speedMultiplier * Scale) \div 10000
        /\ ev.mesh.rotation.y - ev.prev.rotation.y =
              (ev.p.rotationSpeed * ev.speedMultiplier * Scale) \div 10000
        /\ ev.mesh.rotation.z - ev.prev.rotation.z =
              (ev.p.rotationSpeed * ev.speedMultiplier * Scale) \div 20000

\* a cube of radius 0 at multiplier 2 after two frames: at the axis, off its
\* base height, and spun twice
C16_Witness ==
    /\ ev.p.orbitRadius = 0
    /\ ev.speedMultiplier = 20
    /\ ev.n = 2
    /\ ev.mesh.position.x = 0
    /\ ev.mesh.position.z = 0
    /\ ev.mesh.position.y # (ev.p.orbitHeight * Scale) \div 10
    /\ ev.mesh.rotation.x = 2 * 480

\* C17: at every time and under every multiplier the glow's scale is
\* 1 + sin(2t) * 0.1, within 0.9 .. 1.1, and its opacity is 0.3 + sin(3t) * 0.2,
\* within 0.1 .. 0.5; both are functions of the time alone.
C17_GlowBounds ==
    ev.n > 0 =>
        /\ ev.glow.scale = Scale + Sin(ev.time * 2) \div 10
        /\ ev.glow.opacity = (3 * Scale) \div 10 + (Sin(ev.time * 3) * 2) \div 10
        /\ ev.glow.scale >= (9 * Scale) \div 10
        /\ ev.glow.scale <= (11 * Scale) \div 10
        /\ ev.glow.opacity >= Scale \div 10
        /\ ev.glow.opacity <= (5 * Scale) \div 10

\* the glow at t = 0.5 s under multiplier 5: opacity close to its maximum
C17_Witness ==
    /\ ev.n = 1
    /\ ev.speedMultiplier = 50
    /\ ev.time = 5 * TickUnit
    /\ ev.glow.opacity > 9900
    /\ ev.glow.scale > 21600

\* x^2 + z^2 of a position and the square of a radius, both in units of
\* (5 / Scale)^2 so that the squares stay below 2^31
HorizontalSquare(position) ==
    (position.x \div 5) * (position.x \div 5) + (position.z \div 5) * (position.z \div 5)
RadiusSquare(orbitRadius) ==
    ((orbitRadius * Scale) \div 50) * ((orbitRadius * Scale) \div 50)

\* C18: at every time, for every radius >= 0 and every multiplier, the cube
\* lies on the circle of its radius around the origin: x^2 + z^2 equals
\* orbitRadius^2, to within one part in a thousand (the resolution of the
\* fixed-point sine and cosine).
C18_OnTheCircle ==
    ev.n > 0 =>
        /\ HorizontalSquare(ev.mesh.position) - RadiusSquare(ev.p.orbitRadius)
              <= RadiusSquare(ev.p.orbitRadius) \div 1000
        /\ RadiusSquare(ev.p.orbitRadius) - HorizontalSquare(ev.mesh.position)
              <= RadiusSquare(ev.p.orbitRadius) \div 1000

\* cube 9 (radius 7) under a negative multiplier, away from both axes
C18_Witness ==
    /\ ev.n = 2
    /\ ev.p = CubeProps[9]
    /\ ev.speedMultiplier = -10
    /\ ev.mesh.position.x > Scale
    /\ ev.mesh.position.z > Scale

\* 2 * PI / (orbitSpeed * speedMultiplier) in time units, for a non-zero product
OrbitPeriod(orbitSpeed, speedMultiplier) ==
    IF orbitSpeed * speedMultiplier > 0
    THEN (TwoPi * 100) \div (orbitSpeed * speedMultiplier)
    ELSE 0 - ((TwoPi * 100) \div (0 - orbitSpeed * speedMultiplier))

\* the period is a time the model can represent exactly
PeriodIsExact(orbitSpeed, speedMultiplier) ==
    /\ orbitSpeed * speedMultiplier # 0
    /\ OrbitPeriod(orbitSpeed, speedMultiplier) * orbitSpeed * speedMultiplier = TwoPi * 100

\* the position the cube under evaluation gets one orbit period later
PositionOnePeriodLater ==
    OrbitalCubeFrame(ev.prev, ev.p, EvalControls(ev.speedMultiplier),
                     ev.time + OrbitPeriod(ev.p.orbitSpeed, ev.speedMultiplier)).position

\* C19 as stated: for orbitSpeed * speedMultiplier # 0 the full position
\* (x, y, z) at t equals the position at t + 2 * PI / (orbitSpeed * speedMultiplier).
C19_FullPosePeriodic ==
    (ev.n > 0 /\ PeriodIsExact(ev.p.orbitSpeed, ev.speedMultiplier)) =>
        PositionOnePeriodLater = ev.mesh.position

\* C19 amended: for orbitSpeed * speedMultiplier # 0 the x and z at t equal
\* the x and z at t + 2 * PI / (orbitSpeed * speedMultiplier); y has the period
\* PI of its own and is equal too when the orbit period is a multiple of PI.
C19_HorizontalPeriodic ==
    (ev.n > 0 /\ PeriodIsExact(ev.p.orbitSpeed, ev.speedMultiplier)) =>
        /\ PositionOnePeriodLater.x = ev.mesh.position.x
        /\ PositionOnePeriodLater.z = ev.mesh.position.z
        /\ OrbitPeriod(ev.p.orbitSpeed, ev.speedMultiplier) % PI = 0 =>
              PositionOnePeriodLater.y = ev.mesh.position.y

\* cube 1 (orbitSpeed 1.5) at multiplier 1: one period of 4 * PI / 3 later it
\* has the same x and z and another y
C19_Witness ==
    /\ ev.n = 1
    /\ ev.p = CubeProps[1]
    /\ ev.speedMultiplier = 10
    /\ OrbitPeriod(15, 10) = (4 * PI) \div 3
    /\ ev.mesh.position.z # 0
    /\ PositionOnePeriodLater.x = ev.mesh.position.x
    /\ PositionOnePeriodLater.z = ev.mesh.position.z
    /\ PositionOnePeriodLater.y # ev.mesh.position.y

\* C20: the colour of the Cube starts as "#ff6b35", is always one of the five
\* palette colours, and after k clicks is the palette entry k mod 5, so each
\* click moves to the next entry, the last wraps to the first, and five
\* clicks return to the same colour.
C20_ColourCycles ==
    LET palette == <<"#ff6b35", "#4ecdc4", "#45b7d1", "#96ceb4", "#ffeaa7">>
    IN  /\ clicks = 0 => color = "#ff6b35"
        /\ color \in {palette[k] : k \in 1..5}
        /\ color = palette[(clicks % 5) + 1]
        /\ changeColor(changeColor(changeColor(changeColor(changeColor(color))))) = color

\* the fifth click has shown the last colour and the sixth has wrapped around
C20_Witness ==
    /\ clicks = 6
    /\ color = "#4ecdc4"
    /\ isHovered

\* C21: the Cube is hovered exactly when its most recent pointer event was
\* pointer-over (not hovered initially); scale 1.1 and emissive "#111111"
\* when hovered, 1 and "#000000" otherwise; the cursor is 'pointer' after
\* pointer-over and 'default' after pointer-out; pointer events never change
\* the colour and a click never changes the hover state.
C21_HoverFollowsPointer ==
    /\ [](/\ isHovered <=> lastPointer = "over"
          /\ lastPointer = "over" =>
                CubeScale(isHovered) = 11 /\ CubeEmissive(isHovered) = "#111111"
          /\ lastPointer # "over" =>
                CubeScale(isHovered) = 10 /\ CubeEmissive(isHovered) = "#000000"
          /\ lastPointer = "over" => cursor = "pointer"
          /\ lastPointer = "out" => cursor = "default")
    /\ [][/\ lastPointer' # lastPointer => color' = color
          /\ clicks' # clicks => isHovered' = isHovered /\ cursor' = cursor]_vars

\* the pointer entered, two clicks were made while hovered, the pointer left
C21_Witness ==
    /\ lastPointer = "out"
    /\ clicks = 2
    /\ ~isHovered
    /\ cursor = "default"
    /\ color = "#45b7d1"

\* C22: the Exit XR button is shown exactly when the panel's tracked session
\* is non-null; the tracked session starts null and after each notification
\* of the store equals that notification's session (null when the store
\* reports none), so Exit XR only ends a session the store reported and is
\* not offered after the store reported the session gone; once the panel is
\* unmounted no notification updates it.
C22_ExitFollowsSession ==
    /\ [](mounted =>
            /\ shown.exitXR <=> session # 0
            /\ shown.exitXR => shown.session = session
            /\ lastNotified = -1 => session = 0
            /\ lastNotified # -1 => session = lastNotified
            /\ session = storeSession
            /\ lastNotified = 0 => ~shown.exitXR)
    /\ [](endCalls \subseteq reported)
    /\ [][~mounted => session' = session /\ shown' = shown]_vars

\* the first session was ended with Exit XR and reported gone, a second one
\* was granted and is the one Exit XR now offers to end
C22_Witness ==
    /\ mounted
    /\ endCalls = {1}
    /\ reported = {1, 2}
    /\ storeSession = 2
    /\ session = 2
    /\ shown.exitXR
    /\ shown.session = 2

\* C23: at a frame the position of an orbital cube is a function of the
\* current time, the current multiplier and the cube's parameters only: it
\* is what a page that always had the current multiplier shows, the angle
\* differing from the one under another multiplier by
\* t * orbitSpeed * (new - old); the rotation is the previous rotation plus
\* the current increment and so depends on the multipliers of earlier frames.
C23_PositionForgetsHistory ==
    [][IsFrameStep =>
        \A i \in CubeIds :
            LET p == CubeProps[i]
                m == GalaxyControls.speedMultiplier
                a == (time' * p.orbitSpeed * m) \div 100 + p.orbitOffset
            IN  /\ cube'[i].position =
                      [x |-> (Cos(a) * p.orbitRadius) \div 10,
                       y |-> (p.orbitHeight * Scale) \div 10 + (Sin(2 * time') * 3) \div 10,
                       z |-> (Sin(a) * p.orbitRadius) \div 10]
                /\ \A old \in SpeedTiers :
                      LET jump == a - OrbitAngle(time', p.orbitSpeed, old, p.orbitOffset)
                          told == (time' * p.orbitSpeed * (m - old)) \div 100
                      IN  jump - told \in {-1, 0, 1}
                /\ cube'[i].rotation.x =
                      cube[i].rotation.x + (p.rotationSpeed * m * Scale) \div 10000]_vars

\* the first frame ran at multiplier 1 and the second at 2: cube 1 is where
\* multiplier 2 alone puts it, its rotation is that of one frame at each
C23_Witness ==
    /\ frame = 2
    /\ GalaxyControls.speedMultiplier = 20
    /\ cube[1].angle = (time * 15 * 20) \div 100 + CubeProps[1].orbitOffset
    /\ cube[1].rotation.x = 400 + 800
    /\ cube[1].rotation.x # 2 * 800

\* C24: whenever the expanded panel is displayed, the speed button shown as
\* active is the one of the current speedMultiplier and each effect button
\* is shown active exactly when its flag is currently true, also right after
\* a click on one of these buttons.
C24_ActiveButtonsCurrent ==
    (mounted /\ shown.expanded) =>
        /\ shown.activeSpeed = {v \in SpeedTiers : v = GalaxyControls.speedMultiplier}
        /\ shown.activeEffects = {l \in Layers : GalaxyControls[FlagOf(l)]}

\* C25: on every frame, at every multiplier the speed buttons can set, each
\* GlowTrail has the orbit angle, and so the x and z, of the OrbitalCube
\* declared with the same orbitRadius, orbitSpeed and orbitOffset.
C25_TrailStaysWithCube ==
    frame > 0 =>
        \A j \in TrailIds : \A i \in CubeIds :
            (/\ CubeProps[i].orbitRadius = TrailProps[j].orbitRadius
             /\ CubeProps[i].orbitSpeed = TrailProps[j].orbitSpeed
             /\ CubeProps[i].orbitOffset = TrailProps[j].orbitOffset) =>
                /\ trail[j].rotation.y = cube[i].angle
                /\ trail[j].position.x = cube[i].position.x
                /\ trail[j].position.z = cube[i].position.z

\* C26: the speed and effect buttons exist only while the panel is expanded,
\* and it is collapsed initially, so the controls change only in states
\* where the panel is expanded; expanding or collapsing the panel, Enter AR
\* and Exit XR leave speedMultiplier and the five flags unchanged.
C26_ControlsNeedExpandedPanel ==
    /\ ~isExpanded
    /\ [](mounted => (shown.expanded <=> isExpanded))
    /\ [][GalaxyControls' # GalaxyControls =>
             isExpanded /\ shown.expanded /\ isExpanded']_vars
    /\ [][(\/ isExpanded' # isExpanded
           \/ requested' # requested
           \/ endCalls' # endCalls) =>
             GalaxyControls' = GalaxyControls]_vars

\* Turbo and the Glow toggle were clicked while expanded, Enter AR led to a
\* session that Exit XR was clicked on, and the panel is collapsed again
C26_Witness ==
    /\ mounted
    /\ ~isExpanded
    /\ ~shown.expanded
    /\ panelClicks = 2
    /\ GalaxyControls.speedMultiplier = 50
    /\ ~GalaxyControls.showGlow
    /\ endCalls = {1}

====
